---- MODULE Spec2Model ----
(***************************************************************************)
(* lcm-log2smat: log_to_smat.py and scan_for_lcmtypes.py.                  *)
(*                                                                         *)
(* Python values are tagged records:                                       *)
(*   [tag |-> "int", v |-> 5]            int                               *)
(*   [tag |-> "str", v |-> "x"]          str                               *)
(*   [tag |-> "list", items |-> <<..>>]  list                              *)
(*   [tag |-> "object", fields |-> <<..>>]  instance of a class with       *)
(*        __slots__; fields is the sequence of <<slot name, value>>        *)
(*   [tag |-> "dict", keys |-> <<..>>, m |-> [key |-> value]]  dict, with  *)
(*        its keys in insertion order                                      *)
(*   [tag |-> "NoneType"]                None                              *)
(* Field names are sequences of characters, so that field[:31] is a real   *)
(* slice.  An exception leaving a function is the value [tag |-> <name>].  *)
(***************************************************************************)
EXTENDS Integers, Sequences, FiniteSets, TLC

\* ---------------------------------------------------------------- bounds
\* events read from the log, and the largest timestamp of an event
MaxEvents == 2
MaxTimestamp == 1
\* fields of a record and items of a list handed to convert_to_loggable alone
MaxFields == 2
MaxItems == 2

\* ------------------------------------------------------ program constants
\* field[:31]
FieldNameMax == 31
\* event.data[:8]
FingerprintLen == 8

\* ------------------------------------------------------------------ names
RECURSIVE Rep(_, _)
Rep(c, n) == IF n = 0 THEN <<>> ELSE <<c>> \o Rep(c, n - 1)

n_a == <<"a">>
n_b == <<"b">>
n_c == <<"c">>
n_v == <<"v">>
n_w == <<"w">>
n_x == <<"x">>
n_items == <<"i", "t", "e", "m", "s">>
n_nums == <<"n", "u", "m", "s">>
n_sub == <<"s", "u", "b">>
n_timestamp == <<"t", "i", "m", "e", "s", "t", "a", "m", "p">>
\* two distinct names of 32 characters with the same first 31
n_long1 == Rep("q", 31) \o <<"1">>
n_long2 == Rep("q", 31) \o <<"2">>
\* a name of exactly 31 characters, and one of 33
n_exact == Rep("r", 31)
n_long3 == Rep("s", 33)

\* ----------------------------------------------------------------- values
PyInt(n) == [tag |-> "int", v |-> n]
PyStr(s) == [tag |-> "str", v |-> s]
PyNone == [tag |-> "NoneType"]
PyList(items) == [tag |-> "list", items |-> items]
PyObj(fields) == [tag |-> "object", fields |-> fields]
PyDict(keys, m) == [tag |-> "dict", keys |-> keys, m |-> m]
EmptyDict == PyDict(<<>>, <<>>)
Raised(name) == [tag |-> name]

IsPrimitive(data) == data.tag \in {"int", "float", "str", "bytes", "tuple"}
HasSlots(data) == data.tag = "object"
IsRaised(data) == data.tag \in {"SystemExit", "AttributeError"}

\* mutant of Truncate: the slice is one character too long
Truncate_32(field) ==
    IF Len(field) <= FieldNameMax + 1 THEN field ELSE SubSeq(field, 1, FieldNameMax + 1)

\* field[:31]
Truncate(field) ==
    IF Len(field) <= FieldNameMax THEN field ELSE SubSeq(field, 1, FieldNameMax)

\* mutant of DictSet: a key that is present keeps its value
DictSet_keep_first(d, key, value) ==
    IF key \in DOMAIN d.m
    THEN d
    ELSE PyDict(Append(d.keys, key), d.m @@ (key :> value))

\* d[key] = value
DictSet(d, key, value) ==
    IF key \in DOMAIN d.m
    THEN PyDict(d.keys, [d.m EXCEPT ![key] = value])
    ELSE PyDict(Append(d.keys, key), d.m @@ (key :> value))

\* mutant of DictSetDefaultAppend: the list is replaced, not appended to
DictSetDefaultAppend_replace(d, key, value) ==
    IF key \in DOMAIN d.m
    THEN PyDict(d.keys, [d.m EXCEPT ![key] = PyList(<<value>>)])
    ELSE PyDict(Append(d.keys, key), d.m @@ (key :> PyList(<<value>>)))

\* d.setdefault(key, []).append(value), the lists being Python lists
DictSetDefaultAppend(d, key, value) ==
    IF key \in DOMAIN d.m
    THEN PyDict(d.keys, [d.m EXCEPT ![key] = PyList(Append(@.items, value))])
    ELSE PyDict(Append(d.keys, key), d.m @@ (key :> PyList(<<value>>)))

\* any(hasattr(item, "__slots__") for item in data)
AnyHasSlots(items) == \E i \in 1..Len(items) : HasSlots(items[i])

\* for field in msg_dict.keys(): dict.setdefault(field[:31], []).append(msg_dict[field])
RECURSIVE MergeKeys(_, _, _)
MergeKeys(dict, msg_dict, i) ==
    IF i > Len(msg_dict.keys) THEN dict
    ELSE LET field == msg_dict.keys[i]
         IN MergeKeys(DictSetDefaultAppend(dict, Truncate(field), msg_dict.m[field]),
                      msg_dict, i + 1)

\* mutant of Unrecognised: the diagnostic is printed and None is returned
Unrecognised_no_exit(data) == PyNone

\* lines 104-105: print(f"Unrecognised type {type(data)}"); exit()
Unrecognised(data) == Raised("SystemExit")

RECURSIVE convert_to_loggable(_, _)
RECURSIVE TransposeFrom(_, _, _, _)
RECURSIVE ListFrom(_, _, _, _)
RECURSIVE SlotsFrom(_, _, _, _)

\* lines 83-88: the loop over the items of a list that holds an object
TransposeFrom(items, timestamp, i, dict) ==
    IF i > Len(items) THEN dict
    ELSE LET msg_dict == convert_to_loggable(items[i], timestamp)
         IN IF IsRaised(msg_dict) THEN msg_dict
            ELSE IF msg_dict.tag # "dict" THEN Raised("AttributeError")
            ELSE TransposeFrom(items, timestamp, i + 1, MergeKeys(dict, msg_dict, 1))

\* line 90: the list comprehension
ListFrom(items, timestamp, i, acc) ==
    IF i > Len(items) THEN PyList(acc)
    ELSE LET r == convert_to_loggable(items[i], timestamp)
         IN IF IsRaised(r) THEN r
            ELSE ListFrom(items, timestamp, i + 1, Append(acc, r))

\* lines 98-100: the loop over data.__slots__
SlotsFrom(fields, timestamp, i, msg_dict) ==
    IF i > Len(fields) THEN msg_dict
    ELSE LET field == fields[i][1]
             value == fields[i][2]
             r == convert_to_loggable(value, timestamp)
         IN IF IsRaised(r) THEN r
            ELSE SlotsFrom(fields, timestamp, i + 1, DictSet(msg_dict, Truncate(field), r))

convert_to_loggable(data, timestamp) ==
    IF IsPrimitive(data) THEN data
    ELSE IF data.tag = "list"
         THEN IF AnyHasSlots(data.items)
              THEN TransposeFrom(data.items, timestamp, 1, EmptyDict)
              ELSE ListFrom(data.items, timestamp, 1, <<>>)
    ELSE IF HasSlots(data)
         THEN SlotsFrom(data.fields, timestamp, 1,
                        PyDict(<<n_timestamp>>, n_timestamp :> PyInt(timestamp)))
    ELSE Unrecognised(data)


\* ---------------------------------------------------------------- schemas
\* The generated LCM classes are not part of the repository; the model has
\* Len(SchemaMessages) of them.  Schema k has the fingerprint <<k, 0, 0, 0, 0, 0, 0, 0>>
\* and its encoded messages are the fingerprint followed by one byte, the
\* index of the message in Messages(k).
Fingerprint(k) == <<k>> \o Rep(0, FingerprintLen - 1)

Rec1(f, x) == PyObj(<< <<f, x>> >>)
Rec2(f, x, g, y) == PyObj(<< <<f, x>>, <<g, y>> >>)

\* Messages(k)[i] is the i-th message schema k can decode
SchemaMessages ==
    << \* 1: two scalar fields
       << Rec2(n_a, PyInt(5), n_b, PyStr("x")) >>,
       \* 2: another field set, with a field called timestamp, two names
       \* that differ after the 31st character and one of 31 characters
       << PyObj(<< <<n_a, PyInt(6)>>,
                   <<n_timestamp, PyInt(7)>>,
                   <<n_long1, PyInt(1)>>,
                   <<n_long2, PyInt(2)>>,
                   <<n_exact, PyInt(3)>> >>) >>,
       \* 3: lists of objects, of scalars, of lists, and a nested object
       << PyObj(<< <<n_items, PyList(<<Rec1(n_v, PyInt(1)),
                                       Rec1(n_v, PyInt(2)),
                                       Rec1(n_v, PyInt(3))>>)>>,
                   <<n_nums, PyList(<<PyInt(1), PyInt(2)>>)>>,
                   <<n_sub, Rec1(n_long3, PyList(<<>>))>>,
                   <<n_c, PyList(<<Rec1(n_v, PyInt(1)),
                                   Rec2(n_w, PyInt(2), n_timestamp, PyInt(8)),
                                   Rec2(n_long1, PyInt(3), n_long2, PyInt(4)),
                                   Rec1(n_v, PyInt(5))>>)>>,
                   <<n_w, PyList(<<PyList(<<Rec1(n_v, PyInt(1)),
                                            Rec1(n_v, PyInt(2))>>),
                                   Rec1(n_v, PyInt(3))>>)>> >>) >>,
       \* 4: a None inside a list inside an object inside a list
       << PyObj(<< <<n_a, PyInt(5)>>,
                   <<n_items, PyList(<<Rec1(n_x, PyList(<<PyInt(1), PyNone>>))>>)>> >>) >>,
       \* 5: a list of an object and an int
       << Rec1(n_items, PyList(<<Rec1(n_v, PyInt(1)), PyInt(5)>>)) >> >>

NumSchemas == Len(SchemaMessages)
Messages(k) == SchemaMessages[k]

\* lcm_type.decode(event.data): the generated decoder checks the fingerprint
\* and raises on a body it cannot decode
Decode(k, data) ==
    IF /\ Len(data) = FingerprintLen + 1
       /\ SubSeq(data, 1, FingerprintLen) = Fingerprint(k)
       /\ data[FingerprintLen + 1] \in 1..Len(Messages(k))
    THEN Messages(k)[data[FingerprintLen + 1]]
    ELSE Raised("ValueError")


\* --------------------------------------------------------- schema modules
\* A file of the directory tree: its name, the python package of its
\* directory, what reading it gives ("marker": text holding
\* _get_packed_fingerprint, "plain": text without it, "IOError"), what
\* pyclbr.readmodule gives (ImportError, or the classes with their methods),
\* whether __import__ succeeds and the schema the imported class is.
File(name, package, text, clbr_raises, classes, loads, schema) ==
    [name |-> name, package |-> package, text |-> text,
     clbr_raises |-> clbr_raises, classes |-> classes, loads |-> loads,
     schema |-> schema]

Lower == {"a", "b", "c", "d", "e", "f", "g", "h", "i", "j", "k", "l", "m", "n", "o", "p", "q", "r", "s", "t", "u", "v", "w", "x", "y", "z"}
Upper == {"A", "B", "C", "D", "E", "F", "G", "H", "I", "J", "K", "L", "M", "N", "O", "P", "Q", "R", "S", "T", "U", "V", "W", "X", "Y", "Z"}
Digit == {"0", "1", "2", "3", "4", "5", "6", "7", "8", "9"}

\* filename_validator.fullmatch(file), of  [a-zA-Z][a-zA-Z0-9_]*\.py
FilenameValid(file) ==
    /\ Len(file) >= 4
    /\ SubSeq(file, Len(file) - 2, Len(file)) = <<".", "p", "y">>
    /\ file[1] \in Lower \cup Upper
    /\ \A i \in 2..(Len(file) - 3) : file[i] \in Lower \cup Upper \cup Digit \cup {"_"}

\* file[:-3]
LcmtypeName(file) == SubSeq(file, 1, Len(file) - 3)

\* the body of the loop over files: TRUE when the file's module is appended
IsLcmtype(f) ==
    /\ FilenameValid(f.name)
    /\ f.text = "marker"
    /\ ~f.clbr_raises
    /\ LcmtypeName(f.name) \in DOMAIN f.classes
    /\ {"decode", "_get_packed_fingerprint"} \subseteq f.classes[LcmtypeName(f.name)]

RECURSIVE FoundFrom(_, _, _)
FoundFrom(tree, i, found_lcmtypes) ==
    IF i > Len(tree) THEN found_lcmtypes
    ELSE FoundFrom(tree, i + 1,
                   IF IsLcmtype(tree[i]) THEN Append(found_lcmtypes, i)
                   ELSE found_lcmtypes)

\* mutant of find_lcmtypes: the empty list is returned, not raised
find_lcmtypes_no_raise(tree) == PyList(FoundFrom(tree, 1, <<>>))

\* find_lcmtypes: the modules found, each named by the index of its file in
\* the walk, or the FileNotFoundError
find_lcmtypes(tree) ==
    LET found_lcmtypes == FoundFrom(tree, 1, <<>>)
    IN IF found_lcmtypes = <<>> THEN Raised("FileNotFoundError")
       ELSE PyList(found_lcmtypes)

RECURSIVE ImportFrom(_, _, _, _)
ImportFrom(tree, lcm_types, i, result) ==
    IF i > Len(lcm_types) THEN [tag |-> "dict", m |-> result]
    ELSE LET f == tree[lcm_types[i]]
         IN IF ~f.loads THEN Raised("ImportError")
            ELSE ImportFrom(tree, lcm_types, i + 1,
                            (Fingerprint(f.schema) :> f.schema) @@ result)

\* make_lcmtype_dictionary: fingerprint -> class, or the error raised
make_lcmtype_dictionary(tree) ==
    LET lcm_types == find_lcmtypes(tree)
    IN IF lcm_types.tag # "list" THEN lcm_types
       ELSE ImportFrom(tree, lcm_types.items, 1, <<>>)

pkg == <<"p", "k", "g">>
SchemaFile(k) ==
    LET name == <<"t", "_", <<"0", "1", "2", "3", "4", "5", "6", "7">>[k + 1]>>
    IN File(name \o <<".", "p", "y">>, pkg, "marker", FALSE,
            name :> {"decode", "encode", "_get_packed_fingerprint"}, TRUE, k)

JunkFiles ==
    << File(<<"1", "_", "t", ".", "p", "y">>, pkg, "marker", FALSE, <<>>, TRUE, 1),
       File(<<"r", "e", "a", "d", "m", "e", ".", "t", "x", "t">>, <<>>, "plain", FALSE, <<>>, TRUE, 1),
       File(<<"u", "t", "i", "l", ".", "p", "y">>, pkg, "plain", FALSE, <<>>, TRUE, 1),
       File(<<"l", "o", "c", "k", "e", "d", ".", "p", "y">>, pkg, "IOError", FALSE, <<>>, TRUE, 1),
       File(<<"s", "t", "u", "b", ".", "p", "y">>, <<>>, "marker", TRUE, <<>>, TRUE, 1),
       File(<<"o", "t", "h", "e", "r", ".", "p", "y">>, pkg, "marker", FALSE,
            <<"t", "h", "i", "n", "g">> :> {"decode", "_get_packed_fingerprint"}, TRUE, 1),
       File(<<"h", "a", "l", "f", ".", "p", "y">>, pkg, "marker", FALSE, <<"h", "a", "l", "f">> :> {"decode"}, TRUE, 1) >>

SchemaFiles == [k \in 1..NumSchemas |-> SchemaFile(k)]

\* a module that passes both filters and fails to import
BrokenFile == [SchemaFile(1) EXCEPT !.loads = FALSE]

Trees ==
    { <<>>, JunkFiles, JunkFiles \o SchemaFiles, SchemaFiles \o <<BrokenFile>> }


\* ------------------------------------------------------------ command line
\* sys.argv[1:]; getopt.gnu_getopt(argv, "h", longOpts) collects the options
\* wherever they stand and raises GetoptError on the first one it rejects.
Options == {"-h", "--help", "--lcm_type_path=p"}
Rejected == {"--bogus", "--lcm_type_path"}

Argvs ==
    { <<>>, <<"log">>, <<"log", "log2">>, <<"--bogus", "log">>,
      <<"--lcm_type_path">>, <<"-h", "log">>, <<"--help">>,
      <<"--lcm_type_path=p", "log">> }

GetoptError(argv) == \E i \in 1..Len(argv) : argv[i] \in Rejected
GetoptOpts(argv) == SelectSeq(argv, LAMBDA a : a \in Options)
GetoptArgs(argv) == SelectSeq(argv, LAMBDA a : a \notin Options \cup Rejected)

\* parse_options: "exit" when an option prints the usage, else the options
ParseOptionsExits(opts) == \E i \in 1..Len(opts) : opts[i] \in {"-h", "--help"}
ParseOptionsRoot(opts) ==
    IF \E i \in 1..Len(opts) : opts[i] = "--lcm_type_path=p" THEN "p" ELSE "cwd"

\* ------------------------------------------------------------------ events
Channels == {"POSE", "ALT"}
Timestamps == 0..MaxTimestamp

\* the encoded messages of every schema, a body the decoder of schema 1
\* rejects, and a payload shorter than a fingerprint (which is no key of the
\* registry)
Payloads ==
    { Fingerprint(k) \o <<1>> : k \in 1..NumSchemas }
    \cup { Fingerprint(1) \o <<0>>, <<1, 0, 0>> }

Events == [channel : Channels, timestamp : Timestamps, data : Payloads]

\* event.data[:8]
DataFingerprint(data) ==
    IF Len(data) <= FingerprintLen THEN data ELSE SubSeq(data, 1, FingerprintLen)

WarnUnknown(channel) == <<"Unable to find lcm type for event on channel", channel>>
WarnDecode(channel) == <<"Error decoding event on channel", channel>>

\* mutant of StoreFrom: the value is inserted at the front of the array
RECURSIVE StoreFrom_prepend(_, _, _, _)
StoreFrom_prepend(evs, channel, message_dict, i) ==
    IF i > Len(message_dict.keys) THEN evs
    ELSE LET field == message_dict.keys[i]
             acc == IF channel \in DOMAIN evs THEN evs[channel] ELSE <<>>
             old == IF field \in DOMAIN acc THEN acc[field] ELSE <<>>
             new == (field :> (<<message_dict.m[field]>> \o old)) @@ acc
         IN StoreFrom_prepend((channel :> new) @@ evs, channel, message_dict, i + 1)

\* events.setdefault(channel, {}).setdefault(field, []).append(value), for
\* every field of message_dict
RECURSIVE StoreFrom(_, _, _, _)
StoreFrom(evs, channel, message_dict, i) ==
    IF i > Len(message_dict.keys) THEN evs
    ELSE LET field == message_dict.keys[i]
             acc == IF channel \in DOMAIN evs THEN evs[channel] ELSE <<>>
             old == IF field \in DOMAIN acc THEN acc[field] ELSE <<>>
             new == (field :> Append(old, message_dict.m[field])) @@ acc
         IN StoreFrom((channel :> new) @@ evs, channel, message_dict, i + 1)

\* if not first_timestamp: first_timestamp = event.timestamp
FirstTimestamp(first_timestamp, event) ==
    IF first_timestamp.tag = "NoneType" \/ first_timestamp.v = 0
    THEN PyInt(event.timestamp)
    ELSE first_timestamp

\* ------------------------------------------------------------------- state
VARIABLES
    pc,               \* where the process is
    argv,             \* the command line
    tree,             \* the files under the root searched for schemas
    lcmtype_root,     \* options["lcmtype_root"], "cwd" when not given
    lcm_types,        \* the registry: fingerprint -> class
    log_opened,       \* EventLog(input_file, "r") has been called
    log,              \* the events read from the log so far
    first_timestamp,  \* parse_log's first_timestamp
    events,           \* parse_log's events: channel -> field -> values
    calls,            \* the calls of convert_to_loggable made by parse_log
    stderr,           \* what was written to sys.stderr
    exit_status,      \* the exit status, -1 while the process runs
    raised,           \* what ended the process
    mat_written       \* dump_to_matlab has written the output file

vars == <<pc, argv, tree, lcmtype_root, lcm_types, log_opened, log,
          first_timestamp, events, calls, stderr, exit_status, raised,
          mat_written>>

Init ==
    /\ pc = "main"
    /\ argv \in Argvs
    /\ tree \in Trees
    /\ lcmtype_root = "cwd"
    /\ lcm_types = <<>>
    /\ log_opened = FALSE
    /\ log = <<>>
    /\ first_timestamp = PyNone
    /\ events = <<>>
    /\ calls = <<>>
    /\ stderr = <<>>
    /\ exit_status = -1
    /\ raised = "none"
    /\ mat_written = FALSE

\* sys.exit() and exit() without an argument end the process with status 0;
\* an exception nobody catches ends it with status 1
Exit(why) ==
    /\ pc' = "exited"
    /\ raised' = why
    /\ exit_status' = IF why \in {"usage", "SystemExit", "done"} THEN 0 ELSE 1

\* lines 168-186: getopt, the count of positional arguments, parse_options
Main ==
    /\ pc = "main"
    /\ IF GetoptError(argv) \/ Len(GetoptArgs(argv)) # 1
          \/ ParseOptionsExits(GetoptOpts(argv))
       THEN /\ Exit("usage")
            /\ stderr' = Append(stderr, <<"usage">>)
            /\ UNCHANGED lcmtype_root
       ELSE /\ pc' = "parse_and_save"
            /\ lcmtype_root' = ParseOptionsRoot(GetoptOpts(argv))
            /\ UNCHANGED <<stderr, exit_status, raised>>
    /\ UNCHANGED <<argv, tree, lcm_types, log_opened, log, first_timestamp,
                   events, calls, mat_written>>

\* lines 154-156: make_lcmtype_dictionary(options.get("lcmtype_root", os.getcwd()))
MakeLcmtypeDictionary ==
    /\ pc = "parse_and_save"
    /\ LET r == make_lcmtype_dictionary(tree)
       IN IF r.tag = "dict"
          THEN /\ lcm_types' = r.m
               /\ pc' = "open_log"
               /\ UNCHANGED <<exit_status, raised>>
          ELSE /\ Exit(r.tag)
               /\ UNCHANGED lcm_types
    /\ UNCHANGED <<argv, tree, lcmtype_root, log_opened, log, first_timestamp,
                   events, calls, stderr, mat_written>>

\* line 160: EventLog(input_file, "r"), and the entry of parse_log
OpenLog ==
    /\ pc = "open_log"
    /\ log_opened' = TRUE
    /\ pc' = "parse_log"
    /\ first_timestamp' = PyNone
    /\ events' = <<>>
    /\ UNCHANGED <<argv, tree, lcmtype_root, lcm_types, log, calls, stderr,
                   exit_status, raised, mat_written>>

\* mutant of SkipEvent: the channel entry exists before the event is skipped
SkipEvent_setdefault(event, warning) ==
    /\ stderr' = Append(stderr, warning)
    /\ events' = IF event.channel \in DOMAIN events THEN events
                 ELSE (event.channel :> <<>>) @@ events
    /\ UNCHANGED <<pc, calls, exit_status, raised>>

\* lines 124-125 and 131-132: sys.stderr.write(warning); continue
SkipEvent(event, warning) ==
    /\ stderr' = Append(stderr, warning)
    /\ UNCHANGED <<pc, events, calls, exit_status, raised>>

\* lines 112-139: one iteration of the loop of parse_log
ParseLogEvent(event) ==
    /\ pc = "parse_log"
    /\ Len(log) < MaxEvents
    /\ log' = Append(log, event)
    /\ first_timestamp' = FirstTimestamp(first_timestamp, event)
    /\ LET fingerprint == DataFingerprint(event.data)
           known == fingerprint \in DOMAIN lcm_types
           timestamp == event.timestamp - first_timestamp'.v
       IN IF ~known
          THEN SkipEvent(event, WarnUnknown(event.channel))
          ELSE \E message \in {Decode(lcm_types[fingerprint], event.data)} :
               IF message.tag = "ValueError"
               THEN SkipEvent(event, WarnDecode(event.channel))
               ELSE \E message_dict \in {convert_to_loggable(message, timestamp)} :
                    /\ calls' = Append(calls, [event |-> Len(log'),
                                               message |-> message,
                                               timestamp |-> timestamp,
                                               message_dict |-> message_dict])
                    /\ UNCHANGED stderr
                    /\ IF IsRaised(message_dict)
                       THEN Exit(message_dict.tag) /\ UNCHANGED events
                       ELSE IF message_dict.tag # "dict"
                       THEN Exit("AttributeError") /\ UNCHANGED events
                       ELSE /\ events' = StoreFrom(events, event.channel, message_dict, 1)
                            /\ UNCHANGED <<pc, exit_status, raised>>
    /\ UNCHANGED <<argv, tree, lcmtype_root, lcm_types, log_opened, mat_written>>

\* lines 141 and 163-165: the log is exhausted, parse_log returns events,
\* dump_to_matlab(events, output_file) writes them and the script ends
DumpToMatlab ==
    /\ pc = "parse_log"
    /\ mat_written' = TRUE
    /\ Exit("done")
    /\ UNCHANGED <<argv, tree, lcmtype_root, lcm_types, log_opened, log,
                   first_timestamp, events, calls, stderr>>

Next ==
    \/ Main
    \/ MakeLcmtypeDictionary
    \/ OpenLog
    \/ \E event \in Events : ParseLogEvent(event)
    \/ DumpToMatlab

Spec == Init /\ [][Next]_vars

\* ------------------------------------------- convert_to_loggable on its own
\* The records with up to MaxFields fields named v, timestamp and two names
\* that collide after 31 characters, in every order, and the lists of up to
\* MaxItems records.  Field j of item i holds 10 * i + j, so that a value
\* tells where it came from.
FlatNames == {n_v, n_timestamp, n_long1, n_long2}
NameSeqs ==
    { s \in UNION { [1..n -> FlatNames] : n \in 1..MaxFields } :
        \A i, j \in 1..Len(s) : i # j => s[i] # s[j] }
RecordOf(names, i) == PyObj([j \in 1..Len(names) |-> <<names[j], PyInt(10 * i + j)>>])
ThreeRecords == PyList(<<Rec1(n_v, PyInt(1)), Rec1(n_v, PyInt(2)), Rec1(n_v, PyInt(3))>>)
RecordInputs ==
    { RecordOf(s, 0) : s \in NameSeqs } \cup { Rec2(n_a, PyInt(5), n_b, PyStr("x")) }
\* the items of a list declare timestamp alone or not at all
ItemSeqs ==
    { s \in NameSeqs : \A j \in 1..Len(s) : s[j] # n_timestamp } \cup { <<n_timestamp>> }
ListInputs ==
    { PyList([i \in 1..Len(shape) |-> RecordOf(shape[i], i)]) :
      shape \in UNION { [1..n -> ItemSeqs] : n \in 0..MaxItems } }
    \cup { ThreeRecords }

FlattenInit ==
    /\ pc = "convert_to_loggable"
    /\ argv = <<>>
    /\ tree = <<>>
    /\ lcmtype_root = "cwd"
    /\ lcm_types = <<>>
    /\ log_opened = FALSE
    /\ log = <<>>
    /\ first_timestamp = PyNone
    /\ events = <<>>
    /\ calls = <<>>
    /\ stderr = <<>>
    /\ exit_status = -1
    /\ raised = "none"
    /\ mat_written = FALSE

\* one call convert_to_loggable(data, timestamp)
Convert(data, timestamp) ==
    /\ pc' = "returned"
    /\ calls' = <<[event |-> 0,
                   message |-> data,
                   timestamp |-> timestamp,
                   message_dict |-> convert_to_loggable(data, timestamp)]>>
    /\ UNCHANGED <<argv, tree, lcmtype_root, lcm_types, log_opened, log,
                   first_timestamp, events, stderr, exit_status, raised,
                   mat_written>>

ConvertRecord ==
    /\ pc = "convert_to_loggable"
    /\ \E data \in RecordInputs, timestamp \in Timestamps : Convert(data, timestamp)
ConvertList ==
    /\ pc = "convert_to_loggable"
    /\ \E data \in ListInputs, timestamp \in Timestamps : Convert(data, timestamp)

FlattenNext == ConvertRecord \/ ConvertList

FlattenSpec == FlattenInit /\ [][FlattenNext]_vars

\* ------------------------------------------------------------------ claims
\* A call of convert_to_loggable is looked at in the state that follows it,
\* where it is the last of calls.
Returned(c) == c.message_dict.tag = "dict"

\* name[:31], written out
Prefix31(name) == [i \in 1..(IF Len(name) < 31 THEN Len(name) ELSE 31) |-> name[i]]

\* C1: the elapsed timestamp passed to flattening is event.timestamp minus
\* the timestamp of the very first event read from the log, whatever that
\* first timestamp is (0 included) and whether or not the first event was
\* matched or decoded.
C1_ElapsedSinceFirstEvent ==
    \A i \in 1..Len(calls) :
        calls[i].timestamp = log[calls[i].event].timestamp - log[1].timestamp

\* the fields of a record whose names have the 31-character prefix key
FieldsUnder(fields, key) == SelectSeq(fields, LAMBDA f : Prefix31(f[1]) = key)
\* the j-th field's name collides with the name of another field
Collides(fields, j) ==
    \E k \in 1..Len(fields) :
        fields[k][1] # fields[j][1] /\ Prefix31(fields[k][1]) = Prefix31(fields[j][1])
\* the records at any depth of a value
RECURSIVE ObjectsIn(_)
ObjectsIn(data) ==
    IF data.tag = "object"
    THEN {data} \cup UNION { ObjectsIn(data.fields[j][2]) : j \in 1..Len(data.fields) }
    ELSE IF data.tag = "list"
    THEN UNION { ObjectsIn(data.items[j]) : j \in 1..Len(data.items) }
    ELSE {}

LastFieldWins(obj, row, t) ==
    \A j \in 1..Len(obj.fields) :
        Collides(obj.fields, j) =>
            LET key == Prefix31(obj.fields[j][1])
                under == FieldsUnder(obj.fields, key)
            IN /\ key \in DOMAIN row.m
               /\ Len(SelectSeq(row.keys, LAMBDA k : k = key)) = 1
               /\ row.m[key] = convert_to_loggable(under[Len(under)][2], t)
               /\ \A k \in DOMAIN row.m : Prefix31(k) = key => k = key

C3_RecordRow ==
    calls # <<>> =>
        LET c == calls[Len(calls)]
        IN (HasSlots(c.message) /\ Returned(c)) =>
              /\ c.message_dict.m[n_timestamp] = PyInt(c.timestamp)
              /\ \A j \in 1..Len(c.message.fields) :
                    LET f == c.message.fields[j]
                    IN /\ Prefix31(f[1]) \in DOMAIN c.message_dict.m
                       /\ c.message_dict.m[Prefix31(f[1])] =
                             convert_to_loggable(f[2], c.timestamp)

\* the rows parse_log stored for a channel, in event order
Rows(ch) == SelectSeq(calls, LAMBDA c : Returned(c) /\ log[c.event].channel = ch)
RowsWith(ch, f) == SelectSeq(Rows(ch), LAMBDA c : f \in DOMAIN c.message_dict.m)

\* C4: after any prefix of the log, for every channel C and every field
\* array stored under C, the value at index i is the value contributed by the
\* i-th successfully decoded event on C, also when events with different field
\* sets arrive on the same channel.
C4_IndexIsEventIndex ==
    \A ch \in DOMAIN events : \A f \in DOMAIN events[ch] :
        \A i \in 1..Len(events[ch][f]) :
            /\ i <= Len(Rows(ch))
            /\ f \in DOMAIN Rows(ch)[i].message_dict.m
            /\ events[ch][f][i] = Rows(ch)[i].message_dict.m[f]

\* C4 as amended: the value at index i of the array of field f under
\* channel C is the value contributed by the i-th successfully decoded event
\* on C whose row has the field f; the arrays of fields that only some events
\* have are shorter, not padded.
C4_IndexIsOrderAmongRowsWithField ==
    \A ch \in Channels :
        /\ ch \in DOMAIN events <=> Rows(ch) # <<>>
        /\ ch \in DOMAIN events =>
              /\ DOMAIN events[ch] =
                    UNION { DOMAIN Rows(ch)[i].message_dict.m : i \in 1..Len(Rows(ch)) }
              /\ \A f \in DOMAIN events[ch] :
                    events[ch][f] =
                       [i \in 1..Len(RowsWith(ch, f)) |-> RowsWith(ch, f)[i].message_dict.m[f]]
C4_Witness ==
    \E ch \in Channels :
        /\ Len(Rows(ch)) = 2
        /\ n_b \in DOMAIN Rows(ch)[1].message_dict.m
        /\ Prefix31(n_long1) \in DOMAIN Rows(ch)[2].message_dict.m
        /\ Len(events[ch][Prefix31(n_long1)]) = 1
        /\ Len(events[ch][n_a]) = 2

Unmatched(event) == DataFingerprint(event.data) \notin DOMAIN lcm_types
DecodeRaises(event) ==
    /\ ~Unmatched(event)
    /\ Decode(lcm_types[DataFingerprint(event.data)], event.data).tag = "ValueError"

\* C5: an event whose first 8 payload bytes match no registry key, and an
\* event whose decode raises, leaves the Output Mapping as it was, writes
\* exactly one warning (one message for an unknown type, another for a
\* decode failure) and the loop goes on with the next event.
C5_SkippedEventsLeaveOutput ==
    [][ (pc = "parse_log" /\ Len(log') = Len(log) + 1) =>
          LET event == log'[Len(log')]
          IN /\ Unmatched(event) =>
                   /\ events' = events
                   /\ stderr' = Append(stderr, WarnUnknown(event.channel))
                   /\ pc' = "parse_log"
                   /\ exit_status' = -1
             /\ DecodeRaises(event) =>
                   /\ events' = events
                   /\ stderr' = Append(stderr, WarnDecode(event.channel))
                   /\ pc' = "parse_log"
                   /\ exit_status' = -1
             /\ WarnUnknown(event.channel) # WarnDecode(event.channel) ]_vars
\* both kinds of event were skipped, the second after the first
C5_Witness ==
    /\ Len(log) = 2
    /\ Len(stderr) = 2
    /\ \E ch \in Channels : stderr[1] = WarnDecode(ch)
    /\ \E ch \in Channels : stderr[2] = WarnUnknown(ch)
    /\ events = <<>>
    /\ pc = "parse_log"

\* a non-empty list of records
IsRecordList(data) ==
    /\ data.tag = "list"
    /\ data.items # <<>>
    /\ \A j \in 1..Len(data.items) : HasSlots(data.items[j])
\* the names the records of a list declare
DeclaredBy(list) ==
    UNION { { list.items[k].fields[l][1] : l \in 1..Len(list.items[k].fields) } :
            k \in 1..Len(list.items) }

\* C6: flattening a list of N structured records yields one mapping from
\* field name to the length-N sequence of the elements' flattened values for
\* that field, in list order; for 3 records whose single field v is 1, 2, 3
\* the result is {v: [1, 2, 3]}.
C6_TransposeOfFields ==
    calls # <<>> =>
        LET c == calls[Len(calls)]
            d == c.message_dict
        IN IsRecordList(c.message) =>
              /\ d.tag = "dict"
              /\ DOMAIN d.m = { Prefix31(n) : n \in DeclaredBy(c.message) }
              /\ \A key \in DOMAIN d.m :
                    d.m[key].tag = "list" /\ Len(d.m[key].items) = Len(c.message.items)
              /\ c.message = ThreeRecords =>
                    d.m = (n_v :> PyList(<<PyInt(1), PyInt(2), PyInt(3)>>))

ElementRows(list, t) == [k \in 1..Len(list.items) |-> convert_to_loggable(list.items[k], t)]

\* C6 as amended: flattening a non-empty list of N structured records yields
\* one mapping, whose keys are the keys of the elements' rows (timestamp as
\* well as the truncated field names) and whose value under a key is the
\* sequence, in list order, of the values the rows hold under that key: of
\* length N under timestamp and under every key all rows hold.  For 3 records
\* whose single field v is 1, 2, 3 at t the result is
\* {timestamp: [t, t, t], v: [1, 2, 3]}.
C6_TransposeOfRows ==
    calls # <<>> =>
        LET c == calls[Len(calls)]
            d == c.message_dict
            rows == ElementRows(c.message, c.timestamp)
        IN IsRecordList(c.message) =>
              /\ d.tag = "dict"
              /\ DOMAIN d.m = UNION { DOMAIN rows[k].m : k \in 1..Len(rows) }
              /\ \A key \in DOMAIN d.m :
                    LET with == SelectSeq(rows, LAMBDA r : key \in DOMAIN r.m)
                    IN /\ d.m[key] = PyList([k \in 1..Len(with) |-> with[k].m[key]])
                       /\ (\A k \in 1..Len(rows) : key \in DOMAIN rows[k].m) =>
                             Len(d.m[key].items) = Len(c.message.items)
              /\ Len(d.m[n_timestamp].items) = Len(c.message.items)
              /\ c.message = ThreeRecords =>
                    d.m = (n_timestamp :> PyList(<<PyInt(c.timestamp),
                                                   PyInt(c.timestamp),
                                                   PyInt(c.timestamp)>>))
                          @@ (n_v :> PyList(<<PyInt(1), PyInt(2), PyInt(3)>>))
C6_Witness ==
    /\ calls # <<>>
    /\ calls[1].message = ThreeRecords
    /\ calls[1].message_dict.tag = "dict"
    /\ calls[1].message_dict.m[n_v] = PyList(<<PyInt(1), PyInt(2), PyInt(3)>>)

RECURSIVE HasUnflattenable(_)
HasUnflattenable(data) ==
    IF data.tag \in {"int", "float", "str", "bytes", "tuple"} THEN FALSE
    ELSE IF data.tag = "list"
    THEN \E j \in 1..Len(data.items) : HasUnflattenable(data.items[j])
    ELSE IF data.tag = "object"
    THEN \E j \in 1..Len(data.fields) : HasUnflattenable(data.fields[j][2])
    ELSE TRUE

\* C7: when flattening meets a value that is no int, float, str, bytes,
\* tuple, list or record with a field set, at any depth of a decoded event,
\* the run ends there: no later event is processed and the output file is
\* never written, whatever was accumulated before.
C7_UnflattenableEndsRun ==
    \A i \in 1..Len(calls) :
        HasUnflattenable(calls[i].message) =>
            /\ pc = "exited"
            /\ raised \in {"SystemExit", "AttributeError"}
            /\ i = Len(calls)
            /\ calls[i].event = Len(log)
            /\ ~mat_written
            /\ \A ch \in DOMAIN events : \A f \in DOMAIN events[ch] :
                  Len(events[ch][f]) <= i - 1
C7_Witness ==
    /\ Len(calls) = 2
    /\ HasUnflattenable(calls[2].message)
    /\ events # <<>>
    /\ raised = "SystemExit"

\* the text filter and the class inspection of scan_for_lcmtypes
PassesBothFilters(f) ==
    /\ f.text = "marker"
    /\ ~f.clbr_raises
    /\ \E cls \in DOMAIN f.classes :
          /\ cls \o <<".", "p", "y">> = f.name
          /\ "decode" \in f.classes[cls]
          /\ "_get_packed_fingerprint" \in f.classes[cls]
NoSchemaModule(t) == \A i \in 1..Len(t) : ~PassesBothFilters(t[i])

\* C8: over a tree in which no file passes both schema filters, registry
\* construction raises the discovery error instead of returning an empty
\* registry, and this happens before the log is opened, any event is
\* processed or anything is written.
C8_NoSchemasRaises ==
    (NoSchemaModule(tree) /\ pc \notin {"main", "parse_and_save"} /\ raised # "usage") =>
        /\ pc = "exited"
        /\ raised = "FileNotFoundError"
        /\ lcm_types = <<>>
        /\ ~log_opened
        /\ log = <<>>
        /\ calls = <<>>
        /\ ~mat_written
C8_Witness ==
    /\ tree = JunkFiles
    /\ NoSchemaModule(tree)
    /\ pc = "exited"
    /\ raised = "FileNotFoundError"

UsageError(a) == GetoptError(a) \/ Len(GetoptArgs(a)) # 1

\* C9: every usage error of the command line and the "no schemas found"
\* condition end the process with a non-zero exit status, before the log is
\* opened or anything is written.
C9_FatalExitsNonZero ==
    (pc = "exited" /\ (UsageError(argv) \/ raised = "FileNotFoundError")) =>
        /\ exit_status # 0
        /\ ~log_opened
        /\ log = <<>>
        /\ ~mat_written

\* the field names declared at any depth of a value
RECURSIVE DeclaredIn(_)
DeclaredIn(data) ==
    IF data.tag = "object"
    THEN UNION { {data.fields[j][1]} \cup DeclaredIn(data.fields[j][2]) :
                 j \in 1..Len(data.fields) }
    ELSE IF data.tag = "list"
    THEN UNION { DeclaredIn(data.items[j]) : j \in 1..Len(data.items) }
    ELSE {}
DeclaredNames ==
    {n_timestamp} \cup
    UNION { UNION { DeclaredIn(Messages(k)[j]) : j \in 1..Len(Messages(k)) } :
            k \in 1..NumSchemas }
\* the keys at any depth of a flattened value
RECURSIVE KeysIn(_)
KeysIn(value) ==
    IF value.tag = "dict"
    THEN DOMAIN value.m \cup UNION { KeysIn(value.m[k]) : k \in DOMAIN value.m }
    ELSE IF value.tag = "list"
    THEN UNION { KeysIn(value.items[j]) : j \in 1..Len(value.items) }
    ELSE {}
OutputKeys ==
    UNION { DOMAIN events[ch] \cup
            UNION { UNION { KeysIn(events[ch][f][j]) : j \in 1..Len(events[ch][f]) } :
                    f \in DOMAIN events[ch] }
          : ch \in DOMAIN events }

\* C10: every field-name key of the Output Mapping, in each channel
\* accumulator and in every nested mapping at any depth, is at most 31
\* characters long and is the 31-character prefix of a declared field name
\* or of the synthetic timestamp.
C10_KeysTruncated ==
    \A key \in OutputKeys :
        /\ Len(key) <= 31
        /\ \E name \in DeclaredNames : key = Prefix31(name)
C10_Witness ==
    /\ Prefix31(n_long3) \in OutputKeys
    /\ Prefix31(n_long1) \in OutputKeys
    /\ n_long1 \notin OutputKeys
====
